---- MODULE Spec2Model ----
(***************************************************************************)
(* Heap_Id<Vertex_Distance> (src/heap_id.hpp) and Graph::print_dijkstra    *)
(* (src/graph.cpp).                                                        *)
(*                                                                         *)
(* The specifications share the variables:                                 *)
(*   SpecHeap     - a client that pushes, pops and repositions             *)
(*                  Vertex_Distance objects on one Heap_Id, in any order;  *)
(*   SpecFill     - the same client restricted to pushes, at most one      *)
(*                  key-lowering reposition, then pops;                    *)
(*   SpecContract - the fill-and-empty client ending with one call whose   *)
(*                  precondition does not hold;                            *)
(*   SpecLower    - lower(pos) run alone;                                  *)
(*   Spec         - one call of print_dijkstra on a graph satisfying       *)
(*                  IsGraph;                                               *)
(*   SpecSame     - print_dijkstra(v, v) on the same graphs;               *)
(*   SpecArgs     - print_dijkstra on the example graph with every pair of *)
(*                  arguments;                                             *)
(*   SpecPush     - print_dijkstra(v, v) on the graphs of StarSkeleton;    *)
(*   SpecRepo     - the heap client on a Heap_Id of three levels.          *)
(***************************************************************************)
EXTENDS Integers, Sequences, FiniteSets, TLC

(* ------------------------------ bounds --------------------------------- *)

\* capacity of the Heap_Id built by the heap client
HeapCapacity == 3
\* number of Vertex_Distance objects the heap client owns
MaxElem == 4
\* keys the heap client gives to its objects are 0..MaxKey
MaxKey == 2
\* edge weights of the graphs are 0..MaxWeight
MaxWeight == 2

\* number of lines of output the log keeps
MaxOut == 6
\* capacity of the Heap_Id on which lower is run alone
LowerSize == 5
\* capacity of the Heap_Id of the three-level client, whose keys are
\* 0..RepoMaxKey
RepoCapacity == 4
RepoMaxKey == 1

\* skeletons of the graphs print_dijkstra is run on
Skeletons == << << <<1, 4, 3>>, <<>>, <<>>, <<1>>, <<2, 3>> >>,
               << <<3, 4, 2>>, <<2, 3>>, <<>>, <<2>>, <<1>> >>,
               << <<1, 2>>, <<3>>, <<1, 3>>, <<>>, <<>> >> >>

(* ------------------------- program constants --------------------------- *)

\* graph.cpp:80, graph.cpp:83
id_undefined == -1
id_treated == -2

\* unsigned int arithmetic wraps modulo UIntRange.  The width is 32 in the
\* build; TLC's integers are 32-bit signed, so the model wraps at 2^30: the
\* wrap-arounds the code can make (0 - 1, a negative int converted to
\* unsigned, 2 * i + 1) happen in the same places.
UIntRange == 1073741824

\* a null Element pointer (value-initialised Node), an indeterminate value
NULL == -1
Uninit == -1

\* number of vertices of the graphs print_dijkstra is run on
nbr_vertices == 5

VARIABLES
  capacity,      \* Heap_Id::capacity
  elements,      \* Heap_Id::elements : position -> [first, second]
  nb_elem,       \* Heap_Id::nb_elem
  id_to_pos,     \* Heap_Id::id_to_pos
  id_free,       \* Heap_Id::id_free
  vertices_dist, \* the Vertex_Distance objects : [i, distance, from]
  vertices_ids,  \* vertex / object -> id_undefined, id_treated or a handle
  vertices,      \* Graph::vertices : vertex -> sequence of edges <<target, weight>>
  from,          \* parameter from
  to,            \* parameter to
  vd,            \* the copy made of the popped Vertex_Distance
  edge_i,        \* index of the next edge of vd.i to treat (the inner i)
  i_current,     \* cursor of the path loop
  out,           \* lines written to cout
  pc,            \* position in print_dijkstra / in the heap client
  hist           \* shape of the heap client's call sequence so far

vars == <<capacity, elements, nb_elem, id_to_pos, id_free, vertices_dist,
          vertices_ids, vertices, from, to, vd, edge_i, i_current, out, pc,
          hist>>

heapVars == <<capacity, elements, nb_elem, id_to_pos, id_free>>

(* ------------------------------ Heap_Id -------------------------------- *)
(* The methods are operators on a record h holding the fields of the       *)
(* object, a flag ok that is FALSE once an assertion failed or the process *)
(* crashed, and ret, the value returned by the last push or pop.  d gives  *)
(* the Vertex_Distance objects the element pointers refer to.              *)

TheHeap == [capacity |-> capacity, elements |-> elements, nb_elem |-> nb_elem,
            id_to_pos |-> id_to_pos, id_free |-> id_free, ok |-> TRUE,
            ret |-> NULL]

\* Heap_Id(_capacity): Node is value-initialised, id_to_pos is not
NewHeap(c) == [capacity |-> c,
               elements |-> [p \in 0..(c - 1) |-> [first |-> NULL, second |-> 0]],
               nb_elem |-> 0,
               id_to_pos |-> [k \in 0..(c - 1) |-> Uninit],
               id_free |-> [k \in 0..(c - 1) |-> k],
               ok |-> TRUE, ret |-> NULL]

Fail(h) == [h EXCEPT !.ok = FALSE]

\* ASSERT_IN_RANGE(value, 0, capacity - 1) on unsigned operands
InRange(h, value) == value >= 0 /\ value <= (h.capacity - 1) % UIntRange

\* dereferencing elements[pos].first is defined
Deref(h, pos) == h.elements[pos].first # NULL

lt(h, d, pos_1, pos_2) ==
  d[h.elements[pos_1].first].distance < d[h.elements[pos_2].first].distance

le(h, d, pos_1, pos_2) ==
  d[h.elements[pos_1].first].distance <= d[h.elements[pos_2].first].distance

get_pos_left_son(i) == (2 * i + 1) % UIntRange

get_pos_right_son(i) == (2 * i + 2) % UIntRange

get_pos_father(i) == IF i = 0 THEN 0 ELSE (i - 1) \div 2

swap(h, pos_a, pos_b) ==
  IF ~h.ok THEN h
  ELSE IF ~(InRange(h, pos_a) /\ InRange(h, pos_b)) THEN Fail(h)
  ELSE LET itp1 == [h.id_to_pos EXCEPT ![h.elements[pos_a].second] = pos_b]
           itp2 == [itp1 EXCEPT ![h.elements[pos_b].second] = pos_a]
       IN [h EXCEPT !.id_to_pos = itp2,
                    !.elements = [h.elements EXCEPT ![pos_a] = h.elements[pos_b],
                                                    ![pos_b] = h.elements[pos_a]]]

\* the body of is_valid starts with "return true;"
is_valid(h) == TRUE

\* lines 271-283, the loop of is_valid that "return true;" cuts off
fathers_le_sons(h, d) ==
  \A p \in 0..(h.nb_elem - 1) :
    /\ get_pos_right_son(p) < h.nb_elem => le(h, d, p, get_pos_right_son(p))
    /\ get_pos_left_son(p) < h.nb_elem => le(h, d, p, get_pos_left_son(p))

\* lower always swapping with the left son
pos_to_swap_with_left(h, d, pos) == get_pos_left_son(pos)

\* lines 294-299: the son lower swaps pos with
pos_to_swap_with(h, d, pos) ==
  IF get_pos_right_son(pos) < h.nb_elem
     /\ lt(h, d, get_pos_right_son(pos), get_pos_left_son(pos))
  THEN get_pos_right_son(pos)
  ELSE get_pos_left_son(pos)

\* lower with the operands of the comparisons exchanged
lower_cond_swapped(h, d, pos) ==
  \/ get_pos_left_son(pos) < h.nb_elem /\ lt(h, d, pos, get_pos_left_son(pos))
  \/ get_pos_right_son(pos) < h.nb_elem /\ lt(h, d, pos, get_pos_right_son(pos))

\* lines 292-293: the condition of the while of lower
lower_cond(h, d, pos) ==
  \/ get_pos_left_son(pos) < h.nb_elem /\ lt(h, d, get_pos_left_son(pos), pos)
  \/ get_pos_right_son(pos) < h.nb_elem /\ lt(h, d, get_pos_right_son(pos), pos)

RECURSIVE lower(_, _, _)
lower(h, d, pos) ==
  IF ~h.ok THEN h
  ELSE IF ~InRange(h, pos) THEN Fail(h)
  ELSE IF \E p \in {pos, get_pos_left_son(pos), get_pos_right_son(pos)} :
            /\ get_pos_left_son(pos) < h.nb_elem
            /\ p = pos \/ p < h.nb_elem
            /\ ~Deref(h, p)
       THEN Fail(h)
  ELSE IF lower_cond(h, d, pos)
       THEN lower(swap(h, pos, pos_to_swap_with(h, d, pos)), d,
                  pos_to_swap_with(h, d, pos))
       ELSE h

RECURSIVE raise(_, _, _)
raise(h, d, pos) ==
  IF ~h.ok THEN h
  ELSE IF ~InRange(h, pos) THEN Fail(h)
  ELSE IF ~(Deref(h, pos) /\ Deref(h, get_pos_father(pos))) THEN Fail(h)
  ELSE IF lt(h, d, pos, get_pos_father(pos))
       THEN raise(swap(h, pos, get_pos_father(pos)), d, get_pos_father(pos))
       ELSE h

\* v is the index of the object pushed; ret is the id handed out
push(h, d, v) ==
  IF ~(is_valid(h) /\ h.nb_elem < h.capacity) THEN Fail(h)
  ELSE LET id == h.id_free[h.nb_elem]
           h1 == [h EXCEPT !.elements[h.nb_elem] = [first |-> v, second |-> id],
                           !.id_to_pos[id] = h.nb_elem,
                           !.nb_elem = h.nb_elem + 1,
                           !.ret = id]
       IN raise(h1, d, h1.nb_elem - 1)

\* pop without "nb_elem--"
pop_keep_count(h, d) ==
  LET last == (h.nb_elem - 1) % UIntRange
      h1 == swap(h, 0, last)
  IN IF ~h1.ok THEN h1
     ELSE lower([h1 EXCEPT !.ret = h1.elements[last].first], d, 0)

\* ret is the object elements[nb_elem - 1].first refers to after the swap
pop(h, d) ==
  LET last == (h.nb_elem - 1) % UIntRange
      h1 == swap(h, 0, last)
  IN IF ~h1.ok THEN h1
     ELSE lower([h1 EXCEPT !.nb_elem = last, !.ret = h1.elements[last].first],
                d, 0)

\* the value read from id_to_pos[id]; g stands for what an out-of-bounds
\* or indeterminate read yields
read_id_to_pos(h, id, g) ==
  IF id \in 0..(h.capacity - 1) /\ h.id_to_pos[id] # Uninit
  THEN h.id_to_pos[id] ELSE g

\* reads of id_to_pos that are undefined behaviour
BadRead(h, id) == ~(id \in 0..(h.capacity - 1)) \/ h.id_to_pos[id] = Uninit

\* reposition without its call of raise
reposition_lower_only(h, d, id, g1, g2) ==
  lower(h, d, read_id_to_pos(h, id, g2))

reposition(h, d, id, g1, g2) ==
  LET h1 == raise(h, d, read_id_to_pos(h, id, g1))
  IN IF ~h1.ok THEN h1 ELSE lower(h1, d, read_id_to_pos(h1, id, g2))

\* the values an undefined read of id_to_pos may yield: a position, or
\* (capacity) any value the range assertion rejects
Garbage(h, id) == IF BadRead(h, id) THEN 0..h.capacity ELSE {0}

is_empty(h) == h.nb_elem = 0

(* --------------------------- shared pieces ----------------------------- *)

\* a Vertex_Distance built by the default constructor: nothing is set
NoVertexDistance == [i |-> Uninit, distance |-> Uninit, from |-> Uninit]

\* Vertex_Distance(_i, _distance, _from)
Vertex_Distance(_i, _distance, _from) ==
  [i |-> _i, distance |-> _distance, from |-> _from]

\* int -> unsigned int conversion of a recorded id
ToUnsigned(x) == x % UIntRange

NoHist == [kind |-> "none", elem |-> NULL, pos |-> NULL, got |-> NULL]

SetHeapInit(c) ==
  /\ capacity = c
  /\ elements = NewHeap(c).elements
  /\ nb_elem = 0
  /\ id_to_pos = NewHeap(c).id_to_pos
  /\ id_free = NewHeap(c).id_free

SetHeap(h) ==
  /\ capacity' = h.capacity
  /\ elements' = h.elements
  /\ nb_elem' = h.nb_elem
  /\ id_to_pos' = h.id_to_pos
  /\ id_free' = h.id_free

(* ----------------------------- heap client ----------------------------- *)
(* A client owning MaxElem Vertex_Distance objects and one Heap_Id of      *)
(* capacity HeapCapacity.  It pushes an object once, keeps the id push     *)
(* returned in vertices_ids, changes the key of one queued object and      *)
(* calls reposition with the id it keeps for it, and pops.  The objects are *)
(* interchangeable, so the client takes them in the order of their index.  *)

Objects == 0..(MaxElem - 1)
Keys == 0..MaxKey

InitHeap ==
  /\ SetHeapInit(HeapCapacity)
  /\ vertices_dist = [e \in Objects |-> NoVertexDistance]
  /\ vertices_ids = [e \in Objects |-> id_undefined]
  /\ vertices = <<>>
  /\ from = 0
  /\ to = 0
  /\ vd = NoVertexDistance
  /\ edge_i = 0
  /\ i_current = 0
  /\ out = <<>>
  /\ pc = "client"
  /\ hist = [NoHist EXCEPT !.kind = "push"]

dijkstraOnly == <<vertices, from, to, edge_i, i_current, out>>

\* the keys of the objects queued, other than e
OtherKeys(e) ==
  {vertices_dist[x].distance : x \in {y \in Objects \ {e} : vertices_ids[y] >= 0}}

ClientPush(e, k) ==
  /\ pc = "client"
  /\ vertices_ids[e] = id_undefined
  /\ \A x \in Objects : x < e => vertices_ids[x] # id_undefined
  /\ nb_elem < capacity
  /\ LET d1 == [vertices_dist EXCEPT ![e] = Vertex_Distance(e, k, e)]
         h1 == push(TheHeap, d1, e)
     IN /\ vertices_dist' = d1
        /\ SetHeap(h1)
        /\ vertices_ids' = [vertices_ids EXCEPT ![e] = h1.ret]
        /\ pc' = IF h1.ok THEN "client" ELSE "aborted"
  /\ hist' = IF hist.kind = "push" THEN hist ELSE [hist EXCEPT !.kind = "other"]
  /\ UNCHANGED <<dijkstraOnly, vd>>

ClientPop ==
  /\ pc = "client"
  /\ ~is_empty(TheHeap)
  /\ LET h1 == pop(TheHeap, vertices_dist)
     IN /\ SetHeap(h1)
        /\ pc' = IF h1.ok THEN "client" ELSE "aborted"
        /\ vd' = IF h1.ok THEN vertices_dist[h1.ret] ELSE vd
        /\ vertices_ids' = IF h1.ok
                           THEN [vertices_ids EXCEPT ![h1.ret] = id_treated]
                           ELSE vertices_ids
        /\ hist' = IF ~h1.ok THEN hist
                   ELSE IF hist.kind \in {"push", "drain"}
                        THEN [hist EXCEPT !.kind = "drain"]
                   ELSE IF hist.kind = "low"
                        THEN [hist EXCEPT !.kind = "lowpop", !.got = h1.ret]
                   ELSE IF hist.kind = "lowpop"
                        THEN [hist EXCEPT !.kind = "lowdrain"]
                   ELSE hist
  /\ UNCHANGED <<dijkstraOnly, vertices_dist>>

ClientReposition(e, k) ==
  /\ pc = "client"
  /\ vertices_ids[e] >= 0
  /\ k # vertices_dist[e].distance
  /\ LET d1 == [vertices_dist EXCEPT ![e].distance = k]
         id == ToUnsigned(vertices_ids[e])
     IN \E g1 \in Garbage(TheHeap, id), g2 \in Garbage(TheHeap, id) :
          LET h1 == reposition(TheHeap, d1, id, g1, g2)
          IN /\ vertices_dist' = d1
             /\ SetHeap(h1)
             /\ pc' = IF h1.ok THEN "client" ELSE "aborted"
  /\ hist' = IF hist.kind = "push" /\ \A x \in OtherKeys(e) : k < x
             THEN [hist EXCEPT !.kind = "low", !.elem = e,
                               !.pos = id_to_pos[vertices_ids[e]]]
             ELSE [hist EXCEPT !.kind = "other"]
  /\ UNCHANGED <<dijkstraOnly, vertices_ids, vd>>

NextHeap ==
  \/ \E e \in Objects, k \in Keys : ClientPush(e, k)
  \/ ClientPop
  \/ \E e \in Objects, k \in Keys : ClientReposition(e, k)

SpecHeap == InitHeap /\ [][NextHeap]_vars

\* The client that fills the heap and then empties it: pushes only, at most
\* one reposition, made before the first pop, that lowers the key of a queued
\* object below all the other queued keys, then pops only.
FillPush(e, k) == hist.kind = "push" /\ ClientPush(e, k)

FillLower(e, k) ==
  /\ hist.kind = "push"
  /\ \A x \in OtherKeys(e) : k < x
  /\ ClientReposition(e, k)

FillPop == hist.kind # "other" /\ ClientPop

NextFill ==
  \/ \E e \in Objects, k \in Keys : FillPush(e, k)
  \/ \E e \in Objects, k \in Keys : FillLower(e, k)
  \/ FillPop

SpecFill == InitHeap /\ [][NextFill]_vars

\* The client that breaks the contract: it fills and empties a Heap_Id of any
\* capacity up to HeapCapacity as above, and ends with one call whose
\* precondition does not hold.  pc is then "aborted" if the call stopped the
\* process (an assertion, or a null pointer dereferenced), "crashed" or
\* "returned" after undefined behaviour, "returned" if it simply returned.
InitContract ==
  /\ \E c \in 0..HeapCapacity : SetHeapInit(c)
  /\ vertices_dist = [e \in Objects |-> NoVertexDistance]
  /\ vertices_ids = [e \in Objects |-> id_undefined]
  /\ vertices = <<>>
  /\ from = 0
  /\ to = 0
  /\ vd = NoVertexDistance
  /\ edge_i = 0
  /\ i_current = 0
  /\ out = <<>>
  /\ pc = "client"
  /\ hist = [NoHist EXCEPT !.kind = "push"]

\* reposition(id) where push returned id for no queued object: the id of an
\* object already popped, an id never handed out, or (capacity) an id
\* outside the arrays
RepositionNotQueued(id) ==
  /\ pc = "client"
  /\ capacity > 0
  /\ \A e \in Objects : vertices_ids[e] # id
  /\ \E g1 \in Garbage(TheHeap, id), g2 \in Garbage(TheHeap, id) :
       LET h1 == reposition(TheHeap, vertices_dist, id, g1, g2)
       IN /\ SetHeap(h1)
          /\ pc' = IF h1.ok THEN "returned" ELSE "aborted"
  /\ hist' = [hist EXCEPT !.kind = "badrepo"]
  /\ UNCHANGED <<dijkstraOnly, vertices_dist, vertices_ids, vd>>

\* pop() on an empty heap.  swap(0, nb_elem - 1) asserts both positions to be
\* <= capacity - 1; when the assertions pass, elements[nb_elem - 1] is read
\* outside the array: the process crashes, or goes on to nb_elem-- and
\* returns an indeterminate reference.
PopEmpty ==
  /\ pc = "client"
  /\ is_empty(TheHeap)
  /\ IF InRange(TheHeap, (nb_elem - 1) % UIntRange)
     THEN \E crash \in BOOLEAN :
            /\ pc' = IF crash THEN "crashed" ELSE "returned"
            /\ nb_elem' = IF crash THEN nb_elem ELSE (nb_elem - 1) % UIntRange
            /\ UNCHANGED <<capacity, elements, id_to_pos, id_free>>
     ELSE LET h1 == pop(TheHeap, vertices_dist)
          IN /\ SetHeap(h1)
             /\ pc' = IF h1.ok THEN "returned" ELSE "aborted"
  /\ hist' = [hist EXCEPT !.kind = "emptypop"]
  /\ UNCHANGED <<dijkstraOnly, vertices_dist, vertices_ids, vd>>

\* push(v) on a full heap
PushFull(e, k) ==
  /\ pc = "client"
  /\ nb_elem = capacity
  /\ vertices_ids[e] = id_undefined
  /\ \A x \in Objects : x < e => vertices_ids[x] # id_undefined
  /\ LET d1 == [vertices_dist EXCEPT ![e] = Vertex_Distance(e, k, e)]
         h1 == push(TheHeap, d1, e)
     IN /\ vertices_dist' = d1
        /\ SetHeap(h1)
        /\ vertices_ids' = IF h1.ok THEN [vertices_ids EXCEPT ![e] = h1.ret]
                           ELSE vertices_ids
        /\ pc' = IF h1.ok THEN "returned" ELSE "aborted"
  /\ hist' = [hist EXCEPT !.kind = "fullpush"]
  /\ UNCHANGED <<dijkstraOnly, vd>>

NextContract ==
  \/ \E e \in Objects, k \in Keys : FillPush(e, k)
  \/ FillPop
  \/ \E id \in 0..HeapCapacity : RepositionNotQueued(id)
  \/ PopEmpty
  \/ \E e \in Objects, k \in Keys : PushFull(e, k)

SpecContract == InitContract /\ [][NextContract]_vars

\* The heap client on a Heap_Id of capacity RepoCapacity, deep enough for a
\* node to have both a father and a son, with one object more than the
\* capacity and keys 0..RepoMaxKey.
RepoObjects == 0..RepoCapacity

InitRepo ==
  /\ SetHeapInit(RepoCapacity)
  /\ vertices_dist = [e \in RepoObjects |-> NoVertexDistance]
  /\ vertices_ids = [e \in RepoObjects |-> id_undefined]
  /\ vertices = <<>>
  /\ from = 0
  /\ to = 0
  /\ vd = NoVertexDistance
  /\ edge_i = 0
  /\ i_current = 0
  /\ out = <<>>
  /\ pc = "client"
  /\ hist = [NoHist EXCEPT !.kind = "other"]

NextRepo ==
  \/ \E e \in RepoObjects, k \in 0..RepoMaxKey : ClientPush(e, k)
  \/ ClientPop
  \/ \E e \in RepoObjects, k \in 0..RepoMaxKey : ClientReposition(e, k)

SpecRepo == InitRepo /\ [][NextRepo]_vars

\* lower(pos) run alone, on a heap of capacity LowerSize after n pushes that
\* moved nothing (object p at position p with id p) and any change of the
\* keys by the owner of the objects.
InitLower ==
  /\ \E n \in 0..LowerSize :
       \E k \in [0..(n - 1) -> Keys] :
         /\ capacity = LowerSize
         /\ nb_elem = n
         /\ elements = [p \in 0..(LowerSize - 1) |->
                          IF p < n THEN [first |-> p, second |-> p]
                          ELSE [first |-> NULL, second |-> 0]]
         /\ id_to_pos = [i \in 0..(LowerSize - 1) |-> IF i < n THEN i ELSE Uninit]
         /\ id_free = [i \in 0..(LowerSize - 1) |-> i]
         /\ vertices_dist = [e \in 0..(LowerSize - 1) |->
                               IF e < n THEN Vertex_Distance(e, k[e], e)
                               ELSE NoVertexDistance]
         /\ vertices_ids = [e \in 0..(LowerSize - 1) |->
                              IF e < n THEN e ELSE id_undefined]
  /\ vertices = <<>>
  /\ from = 0
  /\ to = 0
  /\ vd = NoVertexDistance
  /\ edge_i = 0
  /\ i_current = 0
  /\ out = <<>>
  /\ pc = "lower"
  /\ hist = NoHist

LowerCall(pos) ==
  /\ pc = "lower"
  /\ LET h1 == lower(TheHeap, vertices_dist, pos)
     IN /\ SetHeap(h1)
        /\ pc' = IF h1.ok THEN "lowered" ELSE "aborted"
  /\ hist' = [hist EXCEPT !.kind = "lower", !.pos = pos]
  /\ UNCHANGED <<dijkstraOnly, vertices_dist, vertices_ids, vd>>

NextLower == \E pos \in 0..(LowerSize - 1) : LowerCall(pos)

SpecLower == InitLower /\ [][NextLower]_vars

(* --------------------------- print_dijkstra ---------------------------- *)

Vertices == 0..(nbr_vertices - 1)
Weights == 0..MaxWeight

\* The graphs print_dijkstra is run on: every skeleton of Skeletons (for
\* each vertex, the ordered targets of its adjacency list) with every
\* choice of a weight of Weights for each edge, and the graph of the
\* documentation's example next to an isolated vertex 4.
Targets_of(sk, u) == IF u < Len(sk) THEN sk[u + 1] ELSE <<>>

Slots(sk) == UNION {{<<u, k>> : k \in 1..Len(Targets_of(sk, u))} : u \in Vertices}

\* the graph of skeleton sk with weight w[<<u, k>>] on the k-th edge of u
WeightedGraph(sk, w) ==
  [u \in Vertices |->
     [k \in 1..Len(Targets_of(sk, u)) |-> <<Targets_of(sk, u)[k], w[<<u, k>>]>>]]

ExampleGraph == [u \in Vertices |->
                   CASE u = 0 -> << <<1, 4>>, <<2, 1>> >>
                     [] u = 1 -> << <<3, 1>> >>
                     [] u = 2 -> << <<1, 1>>, <<3, 5>> >>
                     [] OTHER -> << >>]

IsGraph(g) ==
  \/ g = ExampleGraph
  \/ \E n \in 1..Len(Skeletons) :
       \E w \in [Slots(Skeletons[n]) -> Weights] :
         g = WeightedGraph(Skeletons[n], w)

\* the arguments print_dijkstra is called with; nbr_vertices stands for
\* every id the assertions of lines 87-88 reject
Sources == {0, nbr_vertices}
Targets == 0..nbr_vertices

Init ==
  /\ SetHeapInit(0)
  /\ vertices_dist = <<>>
  /\ vertices_ids = <<>>
  /\ IsGraph(vertices)
  /\ from \in Sources
  /\ to \in Targets
  /\ vd = NoVertexDistance
  /\ edge_i = 0
  /\ i_current = 0
  /\ out = <<>>
  /\ pc = "start"
  /\ hist = NoHist

\* Start without the assertion of line 88
Start_one_assert ==
  /\ pc = "start"
  /\ IF ~(from < nbr_vertices)
     THEN /\ pc' = "aborted"
          /\ UNCHANGED <<heapVars, vertices_dist, vertices_ids>>
     ELSE LET d1 == [[v \in Vertices |-> NoVertexDistance]
                       EXCEPT ![from] = Vertex_Distance(from, 0, from)]
              h1 == push(NewHeap(nbr_vertices), d1, from)
          IN /\ SetHeap(h1)
             /\ vertices_dist' = d1
             /\ vertices_ids' = [[v \in Vertices |-> id_undefined]
                                   EXCEPT ![from] = h1.ret]
             /\ pc' = IF h1.ok THEN "loop" ELSE "aborted"
  /\ UNCHANGED <<vertices, from, to, vd, edge_i, i_current, out, hist>>

\* lines 87-104
Start ==
  /\ pc = "start"
  /\ IF ~(from < nbr_vertices /\ to < nbr_vertices)
     THEN /\ pc' = "aborted"
          /\ UNCHANGED <<heapVars, vertices_dist, vertices_ids>>
     ELSE LET d1 == [[v \in Vertices |-> NoVertexDistance]
                       EXCEPT ![from] = Vertex_Distance(from, 0, from)]
              h1 == push(NewHeap(nbr_vertices), d1, from)
          IN /\ SetHeap(h1)
             /\ vertices_dist' = d1
             /\ vertices_ids' = [[v \in Vertices |-> id_undefined]
                                   EXCEPT ![from] = h1.ret]
             /\ pc' = IF h1.ok THEN "loop" ELSE "aborted"
  /\ UNCHANGED <<vertices, from, to, vd, edge_i, i_current, out, hist>>

\* lines 108-110: the heap is not empty, pop and copy the minimum
Pop ==
  /\ pc = "loop"
  /\ ~is_empty(TheHeap)
  /\ LET h1 == pop(TheHeap, vertices_dist)
     IN /\ SetHeap(h1)
        /\ vd' = IF h1.ok THEN vertices_dist[h1.ret] ELSE vd
        /\ pc' = IF h1.ok THEN "edges" ELSE "aborted"
  /\ edge_i' = 0
  /\ UNCHANGED <<vertices_dist, vertices_ids, vertices, from, to, i_current,
                 out, hist>>

\* lines 112-124: one turn of the for loop, on edge number edge_i of vd.i
Relax ==
  /\ pc = "edges"
  /\ edge_i < Len(vertices[vd.i])
  /\ LET e == vertices[vd.i][edge_i + 1]
         target == e[1]
         weight == e[2]
     IN IF vertices_ids[target] = id_undefined
        THEN LET d1 == [vertices_dist EXCEPT ![target] =
                          Vertex_Distance(target, vd.distance + weight, vd.i)]
                 h1 == push(TheHeap, d1, target)
             IN /\ vertices_dist' = d1
                /\ SetHeap(h1)
                /\ vertices_ids' = [vertices_ids EXCEPT ![target] = h1.ret]
                /\ pc' = IF h1.ok THEN "edges" ELSE "aborted"
        ELSE IF vertices_dist[target].distance > vd.distance + weight
        THEN LET d1 == [vertices_dist EXCEPT
                          ![target].distance = vd.distance + weight,
                          ![target].from = vd.i]
                 id == ToUnsigned(vertices_ids[target])
             IN \E g1 \in Garbage(TheHeap, id), g2 \in Garbage(TheHeap, id) :
                  LET h1 == reposition(TheHeap, d1, id, g1, g2)
                  IN /\ vertices_dist' = d1
                     /\ SetHeap(h1)
                     /\ pc' = IF h1.ok THEN "edges" ELSE "aborted"
                     /\ UNCHANGED vertices_ids
        ELSE UNCHANGED <<heapVars, vertices_dist, vertices_ids, pc>>
  /\ edge_i' = edge_i + 1
  /\ UNCHANGED <<vertices, from, to, vd, i_current, out, hist>>

\* line 125, after the last edge of vd.i
Finalize ==
  /\ pc = "edges"
  /\ edge_i = Len(vertices[vd.i])
  /\ vertices_ids' = [vertices_ids EXCEPT ![vd.i] = id_treated]
  /\ pc' = "loop"
  /\ UNCHANGED <<heapVars, vertices_dist, vertices, from, to, vd, edge_i,
                 i_current, out, hist>>

\* lines 108, 129: the heap is empty, the path loop starts
LoopExit ==
  /\ pc = "loop"
  /\ is_empty(TheHeap)
  /\ i_current' = to
  /\ pc' = "print"
  /\ UNCHANGED <<heapVars, vertices_dist, vertices_ids, vertices, from, to,
                 vd, edge_i, out, hist>>

\* a line written to cout; the log keeps the first MaxOut lines
Emit(line) == IF Len(out) < MaxOut THEN Append(out, line) ELSE out

\* lines 130-135: one turn of the path loop.  A Vertex_Distance that was
\* never assigned holds indeterminate values: the line printed and the next
\* cursor are arbitrary, and a cursor outside the array ends the process.
PrintStep ==
  /\ pc = "print"
  /\ i_current # from
  /\ IF vertices_dist[i_current] # NoVertexDistance
     THEN /\ out' = Emit(<<vertices_dist[i_current].i,
                           vertices_dist[i_current].distance>>)
          /\ i_current' = vertices_dist[i_current].from
          /\ pc' = "print"
     ELSE \E g \in 0..nbr_vertices :
            /\ out' = Emit(<<Uninit, Uninit>>)
            /\ i_current' = IF g < nbr_vertices THEN g ELSE i_current
            /\ pc' = IF g < nbr_vertices THEN "print" ELSE "aborted"
  /\ UNCHANGED <<heapVars, vertices_dist, vertices_ids, vertices, from, to,
                 vd, edge_i, hist>>

\* line 136
PrintEnd ==
  /\ pc = "print"
  /\ i_current = from
  /\ out' = Emit(<<0>>)
  /\ pc' = "done"
  /\ UNCHANGED <<heapVars, vertices_dist, vertices_ids, vertices, from, to,
                 vd, edge_i, i_current, hist>>

Next ==
  \/ Start
  \/ Pop
  \/ Relax
  \/ Finalize
  \/ LoopExit
  \/ PrintStep
  \/ PrintEnd

Spec == Init /\ [][Next]_vars

\* print_dijkstra(v, v) for every vertex v of the graph: the path loop is
\* not entered
InitSame ==
  /\ SetHeapInit(0)
  /\ vertices_dist = <<>>
  /\ vertices_ids = <<>>
  /\ IsGraph(vertices)
  /\ from \in Vertices
  /\ to = from
  /\ vd = NoVertexDistance
  /\ edge_i = 0
  /\ i_current = 0
  /\ out = <<>>
  /\ pc = "start"
  /\ hist = NoHist

NextSame ==
  \/ Start
  \/ Pop
  \/ Relax
  \/ Finalize
  \/ LoopExit
  \/ PrintEnd

SpecSame == InitSame /\ [][NextSame]_vars

\* print_dijkstra on the graph of the documentation's example, with every
\* pair of arguments, in range or not
InitArgs ==
  /\ SetHeapInit(0)
  /\ vertices_dist = <<>>
  /\ vertices_ids = <<>>
  /\ vertices = ExampleGraph
  /\ from \in 0..nbr_vertices
  /\ to \in 0..nbr_vertices
  /\ vd = NoVertexDistance
  /\ edge_i = 0
  /\ i_current = 0
  /\ out = <<>>
  /\ pc = "start"
  /\ hist = NoHist

SpecArgs == InitArgs /\ [][Next]_vars

\* print_dijkstra(v, v) for every vertex v of the graphs in which vertex 0
\* has an edge to every other vertex of the skeleton: from source 0 the
\* heap gets as full as print_dijkstra can make it
StarSkeleton == << <<1, 2, 3, 4>>, <<2>>, <<>>, <<>>, <<1>> >>

InitPush ==
  /\ SetHeapInit(0)
  /\ vertices_dist = <<>>
  /\ vertices_ids = <<>>
  /\ \E w \in [Slots(StarSkeleton) -> Weights] :
       vertices = WeightedGraph(StarSkeleton, w)
  /\ from \in Vertices
  /\ to = from
  /\ vd = NoVertexDistance
  /\ edge_i = 0
  /\ i_current = 0
  /\ out = <<>>
  /\ pc = "start"
  /\ hist = NoHist

SpecPush == InitPush /\ [][NextSame]_vars

(* ------------------------ claims on the heap --------------------------- *)

\* the objects pushed and not returned by pop yet, as the client records them
QueuedObjects == {e \in DOMAIN vertices_ids : vertices_ids[e] >= 0}

\* the ids carried by the nodes at positions 0..nb_elem-1
IdsInUse == {elements[p].second : p \in 0..(nb_elem - 1)}

\* C2: after any sequence of push, pop and reposition (each reposition called
\* with the id push returned for a queued object, whose key alone changed),
\* every position below nb_elem has a key <= the keys of its two sons.
C2_HeapInvariant ==
  pc = "client" => fathers_le_sons(TheHeap, vertices_dist)

\* C3: as long as an object has not been popped, the id push returned for it
\* resolves through id_to_pos to the node of that object, carrying that id.
C3_HandleStability ==
  pc = "client" =>
    \A e \in QueuedObjects :
      elements[id_to_pos[vertices_ids[e]]] =
        [first |-> e, second |-> vertices_ids[e]]

\* C4: the ids of the nodes at positions 0..nb_elem-1 are pairwise distinct,
\* and id_free[nb_elem..capacity-1] holds exactly the ids no queued node has.
C4_HandlesUnique ==
  pc = "client" =>
    /\ \A p, q \in 0..(nb_elem - 1) :
         p # q => elements[p].second # elements[q].second
    /\ {id_free[k] : k \in nb_elem..(capacity - 1)} =
         (0..(capacity - 1)) \ IdsInUse

C11_BadHandleFailsFast ==
  [][hist'.kind = "badrepo" =>
       /\ pc' = "aborted"
       /\ elements' = elements
       /\ id_to_pos' = id_to_pos]_vars

\* C12: pop on an empty heap stops the process on an assertion, whatever the
\* capacity, without returning an element and without changing nb_elem.
C12_EmptyPopFailsFast ==
  [][hist'.kind = "emptypop" =>
       /\ pc' = "aborted"
       /\ nb_elem' = nb_elem
       /\ vd' = vd]_vars

EdgeSlots == UNION {{<<u, k>> : k \in 1..Len(vertices[u])} : u \in Vertices}

\* the edges of the graph, as <<origin, target, weight>>
Edges == {<<s[1], vertices[s[1]][s[2]][1], vertices[s[1]][s[2]][2]>> : s \in EdgeSlots}

SetMin(S) == CHOOSE x \in S : \A y \in S : x <= y
SetMax(S) == CHOOSE x \in S : \A y \in S : x >= y

\* larger than the weight of every simple path of a graph with edges E
Inf(E) == nbr_vertices * (SetMax({e[3] : e \in E} \cup {0}) + 1)

RECURSIVE BellmanFord(_, _, _)
BellmanFord(E, dist, rounds) ==
  IF rounds = 0 THEN dist
  ELSE BellmanFord(E,
         [v \in Vertices |->
            SetMin({dist[v]} \cup {dist[e[1]] + e[3] : e \in {x \in E : x[2] = v}})],
         rounds - 1)

\* weight of a shortest path from the source to each vertex of the graph
\* with edges E, Inf(E) if there is none
ShortestDist(E) ==
  BellmanFord(E, [v \in Vertices |-> IF v = from THEN 0 ELSE Inf(E)],
              nbr_vertices)

\* the status of a vertex, read off vertices_ids
Queued(v) == vertices_ids[v] >= 0 /\ ~(pc = "edges" /\ vd.i = v)
Finalized(v) == vertices_ids[v] = id_treated
Unvisited(v) == vertices_ids[v] = id_undefined

InMainLoop == pc \in {"loop", "edges"}

\* C1: when the main loop ends, every vertex reachable from the source has
\* the weight of a shortest path as its distance, and its 'from' is the
\* vertex before it on a shortest path (the source: itself).
C1_ShortestPaths ==
  pc = "print" =>
    LET E == Edges
        sd == ShortestDist(E)
        inf == Inf(E)
    IN \A v \in Vertices :
         sd[v] < inf =>
           /\ vertices_dist[v].distance = sd[v]
           /\ \/ v = from /\ vertices_dist[v].from = v
              \/ \E e \in E :
                   /\ e[1] = vertices_dist[v].from
                   /\ e[2] = v
                   /\ sd[e[1]] + e[3] = sd[v]

\* C5: in every state of the main loop, the id recorded for a queued vertex
\* leads through id_to_pos to the node of that vertex, and no two queued
\* vertices have the same recorded id.
C5_LookupInDijkstra ==
  InMainLoop =>
    /\ \A v \in Vertices :
         Queued(v) => elements[id_to_pos[vertices_ids[v]]].first = v
    /\ \A u, v \in Vertices :
         (Queued(u) /\ Queued(v) /\ u # v) => vertices_ids[u] # vertices_ids[v]

\* C8: the vertex pop returns has a distance <= the distance of every vertex
\* still in the heap.
C8_PopIsMinimum ==
  (pc = "edges" /\ edge_i = 0) =>
    \A p \in 0..(nb_elem - 1) :
      vd.distance <= vertices_dist[elements[p].first].distance

\* C9: once a vertex is Finalized, no step changes its distance or its
\* predecessor.
C9_FinalizedIsFrozen ==
  [][\A v \in DOMAIN vertices_ids :
       Finalized(v) => vertices_dist'[v] = vertices_dist[v]]_vars

\* C10: the path loop never reads the Vertex_Distance of a vertex that is
\* still Unvisited.
C10_NoUnvisitedRead ==
  (pc = "print" /\ i_current # from) => ~Unvisited(i_current)

\* C14: the status of a vertex only moves from Unvisited to Queued (at its
\* push) and from Queued to Finalized, and pop only returns a vertex that is
\* Queued: no vertex is pushed twice, popped twice, or pushed once Finalized.
C14_StatusOnce ==
  [][/\ \A v \in DOMAIN vertices_ids :
          vertices_ids'[v] # vertices_ids[v] =>
            \/ Unvisited(v) /\ vertices_ids'[v] >= 0
            \/ vertices_ids[v] >= 0 /\ vertices_ids'[v] = id_treated
     /\ (pc = "loop" /\ pc' = "edges") => vertices_ids[vd'.i] >= 0]_vars

\* print_dijkstra stopped inside the main loop
AbortedInMainLoop == pc = "aborted" /\ vertices_dist # <<>> /\ out = <<>>

\* C15: with an in-range source the main loop runs until the heap is empty,
\* and then every vertex reachable from the source is Finalized and every
\* other vertex is still Unvisited.
C15_LoopEnd ==
  /\ ~AbortedInMainLoop
  /\ pc = "print" =>
       LET E == Edges
           sd == ShortestDist(E)
           inf == Inf(E)
       IN \A v \in Vertices :
            IF sd[v] < inf THEN Finalized(v) ELSE Unvisited(v)

\* C16: for a target reachable from the source and different from it, the
\* path loop ends, and the lines written are one <<vertex, distance>> per
\* path vertex from the target back to the source excluded, each distance
\* the weight of a shortest path to that vertex, consecutive vertices joined
\* by an edge of the graph, and then the line n0.
C16_PathOutput ==
  (pc \in {"print", "done", "aborted"} /\ from \in Vertices /\ to \in Vertices
     /\ to # from) =>
    LET E == Edges
        sd == ShortestDist(E)
        n == Len(out)
    IN sd[to] < Inf(E) =>
         /\ pc = "aborted" => out = <<>>
         /\ n <= nbr_vertices
         /\ pc = "done" =>
              /\ n >= 2
              /\ out[n] = <<0>>
              /\ out[1][1] = to
              /\ \A k \in 1..(n - 1) :
                   /\ Len(out[k]) = 2
                   /\ out[k][1] \in Vertices
                   /\ out[k][2] = sd[out[k][1]]
              /\ \A k \in 1..(n - 1) :
                   \E e \in E :
                     /\ e[1] = (IF k = n - 1 THEN from ELSE out[k + 1][1])
                     /\ e[2] = out[k][1]

\* C19: reposition is only called for a target that is Queued: never for a
\* Finalized vertex, whose recorded id is id_treated.
C19_RepositionQueuedOnly ==
  (pc = "edges" /\ edge_i < Len(vertices[vd.i])) =>
    LET target == vertices[vd.i][edge_i + 1][1]
        weight == vertices[vd.i][edge_i + 1][2]
    IN (/\ vertices_ids[target] # id_undefined
        /\ vertices_dist[target].distance > vd.distance + weight) =>
         Queued(target)

\* C17: when the source and the target are the same vertex, what is printed
\* is one line, and it names that vertex, whose distance is 0.
C17_SameVertex ==
  (pc = "done" /\ from = to) =>
    /\ Len(out) = 1
    /\ out[1][1] = from
    /\ vertices_dist[from].distance = 0

\* C18: with a source or a target >= nbr_vertices, print_dijkstra stops on
\* an assertion: no heap is built, no vertex state is written and nothing is
\* printed.
C18_ArgsChecked ==
  (from >= nbr_vertices \/ to >= nbr_vertices) =>
    /\ pc \in {"start", "aborted"}
    /\ capacity = 0
    /\ nb_elem = 0
    /\ vertices_dist = <<>>
    /\ vertices_ids = <<>>
    /\ out = <<>>

C18_Witness ==
  /\ pc = "aborted"
  /\ from < nbr_vertices
  /\ to >= nbr_vertices

\* what C20 says lower makes of the array el of a heap of n elements with
\* keys in d: while a son of pos below n has a key strictly smaller than the
\* key of pos, exchange pos with its son below n of smallest key, the left
\* one when the keys are equal, and go on from there
RECURSIVE ClaimedLower(_, _, _, _)
ClaimedLower(el, n, d, pos) ==
  LET key(p) == d[el[p].first].distance
      sons == {c \in {2 * pos + 1, 2 * pos + 2} : c < n}
  IN IF \A c \in sons : key(c) >= key(pos) THEN el
     ELSE LET s == CHOOSE c \in sons :
                     \A c2 \in sons :
                       key(c) < key(c2) \/ (key(c) = key(c2) /\ c <= c2)
          IN ClaimedLower([el EXCEPT ![pos] = el[s], ![s] = el[pos]], n, d, s)

RepositionStep ==
  pc = "client" /\ vertices_dist' # vertices_dist /\ vertices_ids' = vertices_ids

\* the position reposition starts from at such a step
RepositionPos ==
  id_to_pos[vertices_ids[CHOOSE e \in DOMAIN vertices_ids :
                            vertices_dist'[e] # vertices_dist[e]]]

\* C21: when reposition is called on a heap that was ordered before the key
\* of the object named by the handle changed, raise and lower do not both
\* swap, and the heap is ordered when reposition returns.
C21_OnePhase ==
  [][(RepositionStep /\ fathers_le_sons(TheHeap, vertices_dist)) =>
       LET h1 == raise(TheHeap, vertices_dist', RepositionPos)
       IN /\ pc' = "client"
          /\ fathers_le_sons(TheHeap', vertices_dist')
          /\ ~(h1.elements # elements /\ elements' # h1.elements)]_vars

\* C22: after any sequence of push, pop and reposition, the element
\* references at positions 0..nb_elem-1 are exactly the objects pushed and
\* not yet returned by pop, each exactly once.
C22_ExactContents ==
  pc = "client" =>
    /\ {elements[p].first : p \in 0..(nb_elem - 1)} = QueuedObjects
    /\ nb_elem = Cardinality(QueuedObjects)

\* the number of vertices currently Queued
QueuedCount == Cardinality({v \in Vertices : Queued(v)})

\* the next step of print_dijkstra is the call of heap.push of line 117
PushCalled ==
  /\ pc = "edges"
  /\ edge_i < Len(vertices[vd.i])
  /\ vertices_ids[vertices[vd.i][edge_i + 1][1]] = id_undefined

\* C23: during print_dijkstra the heap never holds more elements than there
\* are Queued vertices, which are at most nbr_vertices, and nb_elem < capacity
\* holds whenever heap.push is called.
C23_PushFits ==
  vertices_ids # <<>> =>
    /\ nb_elem <= QueuedCount
    /\ QueuedCount <= nbr_vertices
    /\ capacity = nbr_vertices
    /\ PushCalled => nb_elem < capacity

\* heap.push is called for the last vertex of the skeleton while all the
\* others but the source are in the heap
C23_Witness ==
  /\ PushCalled
  /\ nb_elem = Len(StarSkeleton) - 2
  /\ QueuedCount = nb_elem

====
